---- MODULE Spec2Model ----
(***************************************************************************)
(* Buffer ownership and native-handle lifecycle of the TurboJPEG wrapper:  *)
(* OwnedBuf / OutputBuf (src/src/buf.rs), Handle (src/src/handle.rs) and   *)
(* Transformer::transform (src/src/transform.rs).  The native library      *)
(* (tj3Alloc, tj3Free, tj3Init, tj3Set, tj3Transform, ...) lives behind    *)
(* the ffi module and is modelled from its interface contract.             *)
(***************************************************************************)
EXTENDS Integers, Sequences, FiniteSets, TLC

(* ------------------------------ bounds -------------------------------- *)
MaxLen == 2
MaxBufs == 1
MaxNative == 2
MaxTransformers == 1

\* width in bits of the native integer libc::c_int as modelled (32 in the
\* build; TLC's own integers end at 2^31 - 1, so the width is scaled down)
CIntBits == 4

\* largest value of libc::c_int, the target of the crop try_into()
INT_MAX == 2 ^ (CIntBits - 1) - 1

NULL == 0
\* a byte of a native region that nothing has written yet
Uninit == 2
Lens == 0 .. MaxLen
BufIds == 1 .. MaxBufs
Tids == 1 .. MaxTransformers
NativeAddrs == 1 .. MaxNative

\* the caller's memory: an empty slice and one of MaxLen bytes
Slices == {1, 2}
SliceLen(s) == (s - 1) * MaxLen
SliceAddr(s) == MaxNative + s
SliceAddrs == {SliceAddr(s) : s \in Slices}
IsSliceAddr(p) == p \in SliceAddrs
SliceOf(p) == p - MaxNative

VARIABLES
    heap,      \* native allocator: address -> [live, data]
    badFree,   \* addresses handed to the native free that were not live allocations
    slices,    \* contents of the caller's slices
    bufs,      \* the OwnedBuf / OutputBuf values alive in the program
    ctxs,      \* native codec contexts: [live, noRealloc, err]
    globalErr, \* native error string that is not bound to a context
    trs,       \* the Transformer values alive in the program
    last       \* observation of the most recent operation

vars == <<heap, badFree, slices, bufs, ctxs, globalErr, trs, last>>

(* ------------------------------ helpers ------------------------------- *)
Take(s, n) == [i \in 1 .. n |-> s[i]]
Fill(n, v) == [i \in 1 .. n |-> v]
Overwrite(old, new) == [i \in 1 .. Len(old) |-> IF i <= Len(new) THEN new[i] ELSE old[i]]

FreeCell == [live |-> FALSE, data |-> <<>>]
Call(f, a, r) == [f |-> f, a |-> a, r |-> r]

Ok == [kind |-> "Ok", msg |-> ""]
Err(kind, msg) == [kind |-> kind, msg |-> msg]
Panic == [kind |-> "Panic", msg |-> "tj3Alloc() returned null"]

(* ------------------ native allocator (ffi::tj3Alloc / tj3Free) -------- *)
\* The native side is threaded through the operations as n = [heap, bad].
Native(h, bad) == [heap |-> h, bad |-> bad]
LiveAddrs(n) == {a \in NativeAddrs : n.heap[a].live}

\* tj3Alloc(len): null (no memory, or a zero-sized request), or a region of
\* len bytes at an address that is not in use; its bytes are uninitialised.
tj3Alloc(n, len) ==
    {[n |-> n, ret |-> NULL]}
    \cup {[n |-> [n EXCEPT !.heap[a] = [live |-> TRUE, data |-> Fill(len, Uninit)]], ret |-> a] :
            a \in NativeAddrs \ LiveAddrs(n)}

\* tj3Free(p): a no-op on null, releases a live allocation, and anything else
\* (an address already released, or one that never came from tj3Alloc) is an
\* invalid free, which is recorded.
tj3Free(n, p) ==
    IF p = NULL THEN n
    ELSE IF p \in NativeAddrs /\ n.heap[p].live
         THEN [n EXCEPT !.heap[p] = FreeCell]
         ELSE [n EXCEPT !.bad = @ \cup {p}]

\* bytes addressed by (ptr, len) in native or caller memory (no buffer of the
\* program ever has a len beyond its region; a read past it would give 0 here)
MemAt(h, sl, p) ==
    IF p \in NativeAddrs THEN h[p].data
    ELSE IF IsSliceAddr(p) THEN sl[SliceOf(p)]
    ELSE <<>>
ReadBytes(h, sl, p, len) ==
    LET m == MemAt(h, sl, p) IN [i \in 1 .. len |-> IF i <= Len(m) THEN m[i] ELSE 0]

(* ------------------------------ buf.rs -------------------------------- *)
NoBuf == [kind |-> "none", ptr |-> NULL, len |-> 0, is_owned |-> FALSE, slice |-> 0]
OwnedBuf(ptr, len) ==
    [kind |-> "OwnedBuf", ptr |-> ptr, len |-> len, is_owned |-> TRUE, slice |-> 0]
OutputBuf(ptr, len, is_owned, slice) ==
    [kind |-> "OutputBuf", ptr |-> ptr, len |-> len, is_owned |-> is_owned, slice |-> slice]

\* An outcome of a buffer operation: the native state after it, the native
\* calls it made, its result and the buffer it returns (NoBuf on a panic).
\* moved: the source of an ownership transfer as its destructor finds it.
Outcome(n, calls, res, buf) ==
    [n |-> n, calls |-> calls, res |-> res, buf |-> buf, moved |-> NoBuf]

\* OwnedBuf::new
OwnedBuf_new == OwnedBuf(NULL, 0)

\* OwnedBuf::allocate: asserts that tj3Alloc did not return null
OwnedBuf_allocate(n, len) ==
    {IF a.ret = NULL
        THEN Outcome(a.n, <<Call("tj3Alloc", len, a.ret)>>, Panic, NoBuf)
        ELSE Outcome(a.n, <<Call("tj3Alloc", len, a.ret)>>, Ok, OwnedBuf(a.ret, len)) :
     a \in tj3Alloc(n, len)}

\* variant: nothing is copied
CopyInto_nothing(n, ptr, data) == n

\* ptr::copy_nonoverlapping(data.as_ptr(), buf.ptr, data.len())
CopyInto(n, ptr, data) ==
    IF ptr \in NativeAddrs /\ n.heap[ptr].live
    THEN [n EXCEPT !.heap[ptr].data = Overwrite(@, data)]
    ELSE n

\* OwnedBuf::copy_from_slice
OwnedBuf_copy_from_slice(n, data) ==
    {IF o.res = Ok
        THEN [o EXCEPT !.n = CopyInto(o.n, o.buf.ptr, data)]
        ELSE o :
     o \in OwnedBuf_allocate(n, Len(data))}

\* impl Drop for OwnedBuf
OwnedBuf_drop(n, buf) ==
    Outcome(tj3Free(n, buf.ptr), <<Call("tj3Free", buf.ptr, 0)>>, Ok, NoBuf)

\* variant: the destructor frees whatever the buffer holds
OutputBuf_drop_always(n, buf) ==
    Outcome(tj3Free(n, buf.ptr), <<Call("tj3Free", buf.ptr, 0)>>, Ok, NoBuf)

\* impl Drop for OutputBuf
OutputBuf_drop(n, buf) ==
    IF buf.is_owned
    THEN Outcome(tj3Free(n, buf.ptr), <<Call("tj3Free", buf.ptr, 0)>>, Ok, NoBuf)
    ELSE Outcome(n, <<>>, Ok, NoBuf)

\* OutputBuf::borrowed
OutputBuf_borrowed(s) == OutputBuf(SliceAddr(s), SliceLen(s), FALSE, s)

\* variant: the source keeps its pointer
OwnedMovedFrom_keepsPtr(buf) == buf

\* the source OwnedBuf of OutputBuf::owned after `buf.ptr = ptr::null_mut()`
OwnedMovedFrom(buf) == [buf EXCEPT !.ptr = NULL]

\* OutputBuf::owned: copies the fields out, clears the source's pointer,
\* and the source is dropped when the function returns
OutputBuf_owned(n, buf) ==
    LET d == OwnedBuf_drop(n, OwnedMovedFrom(buf))
    IN  [Outcome(d.n, d.calls, Ok, OutputBuf(buf.ptr, buf.len, TRUE, 0))
            EXCEPT !.moved = OwnedMovedFrom(buf)]

\* OutputBuf::new_owned
OutputBuf_new_owned(n) == OutputBuf_owned(n, OwnedBuf_new)

\* OutputBuf::allocate_owned
OutputBuf_allocate_owned(n, cap) ==
    {IF a.res = Ok
        THEN LET o == OutputBuf_owned(a.n, a.buf)
             IN  [Outcome(o.n, a.calls \o o.calls, Ok, o.buf) EXCEPT !.moved = o.moved]
        ELSE a :
     a \in OwnedBuf_allocate(n, cap)}

\* variant: the consumed buffer keeps its pointer
OutputMovedFrom_keepsPtr(buf) == buf

\* the consumed OutputBuf of into_owned after `self.ptr = ptr::null_mut()`
OutputMovedFrom(buf) == [buf EXCEPT !.ptr = NULL]

\* OutputBuf::into_owned: self is dropped when the function returns or unwinds
OutputBuf_into_owned(n, sl, buf) ==
    IF buf.is_owned
    THEN LET d == OutputBuf_drop(n, OutputMovedFrom(buf))
         IN  {[Outcome(d.n, d.calls, Ok, OwnedBuf(buf.ptr, buf.len))
                 EXCEPT !.moved = OutputMovedFrom(buf)]}
    ELSE {LET d == OutputBuf_drop(c.n, OutputMovedFrom(buf))
          IN  [Outcome(d.n, c.calls \o d.calls, c.res, c.buf)
                 EXCEPT !.moved = OutputMovedFrom(buf)] :
          c \in OwnedBuf_copy_from_slice(n, ReadBytes(n.heap, sl, buf.ptr, buf.len))}

\* A byte view: its result, the bytes seen and the addresses dereferenced.
ByteView(res, view, read) == [res |-> res, view |-> view, read |-> read]

\* slice::from_raw_parts(ptr, len) behind debug_assert!(!ptr.is_null()): a
\* null address stops a debug build at the assertion and is undefined
\* behaviour (here: a fault) in a release build
RawParts(h, sl, ptr, len) ==
    IF ptr = NULL
    THEN {ByteView(Err("Panic", "assertion failed: !ptr.is_null()"), <<>>, {}),
          ByteView(Err("Fault", ""), <<>>, {NULL})}
    ELSE {ByteView(Ok, ReadBytes(h, sl, ptr, len), {ptr})}

\* variant: the length is not looked at
deref_noLenCheck(h, sl, ptr, len) == RawParts(h, sl, ptr, len)

\* deref: the empty view for len = 0, without using ptr
deref(h, sl, ptr, len) ==
    IF len # 0 THEN RawParts(h, sl, ptr, len) ELSE {ByteView(Ok, <<>>, {})}

\* deref_mut
deref_mut(h, sl, ptr, len) ==
    IF len # 0 THEN RawParts(h, sl, ptr, len) ELSE {ByteView(Ok, <<>>, {})}

(* --------------- native codec contexts (ffi::tj3Init, ...) ------------ *)
CtxIds == 1 .. MaxTransformers
DeadCtx == [live |-> FALSE, noRealloc |-> 0, err |-> "No error"]
FreshCtx == [live |-> TRUE, noRealloc |-> 0, err |-> "No error"]

\* tj3Init: null with the error left in the global error string, or a
\* context that is not in use
tj3Init(cx, gerr) ==
    {[cx |-> cx, gerr |-> "Init failed", ret |-> NULL]}
    \cup {[cx |-> [cx EXCEPT ![c] = FreshCtx], gerr |-> gerr, ret |-> c] :
            c \in {c \in DOMAIN cx : ~cx[c].live}}

\* tj3Destroy: a no-op on null
tj3Destroy(cx, c) == IF c = NULL THEN cx ELSE [cx EXCEPT ![c] = DeadCtx]

\* tj3GetErrorStr: the context's last error, the global one for a null context
tj3GetErrorStr(cx, gerr, c) == IF c = NULL THEN gerr ELSE cx[c].err

\* tj3Set(handle, TJPARAM_NOREALLOC, value): status 0 and the parameter is set,
\* or status -1 and the context's error string is set
tj3Set(cx, c, value) ==
    {[cx |-> [cx EXCEPT ![c].noRealloc = value], status |-> 0],
     [cx |-> [cx EXCEPT ![c].err = "Invalid parameter"], status |-> -1]}

(* ----------------------------- handle.rs ------------------------------ *)
NoTransformer == [state |-> "none", ptr |-> NULL]
Handle(ptr) == [state |-> "ready", ptr |-> ptr]

\* Handle::get_error
Handle_get_error(cx, gerr, h) ==
    Err("TurboJpegError", tj3GetErrorStr(cx, gerr, h.ptr))

\* variant: one native context is created and handed to every Handle
Handle_new_shared(cx, gerr) ==
    IF \E c \in DOMAIN cx : cx[c].live
    THEN {[cx |-> cx, gerr |-> gerr, h |-> Handle(c), res |-> Ok, calls |-> <<>>] :
          c \in {c \in DOMAIN cx : cx[c].live}}
    ELSE {IF i.ret = NULL
             THEN [cx |-> tj3Destroy(i.cx, NULL), gerr |-> i.gerr, h |-> NoTransformer,
                   res |-> Handle_get_error(i.cx, i.gerr, Handle(NULL)),
                   calls |-> <<Call("tj3Init", 0, i.ret), Call("tj3GetErrorStr", NULL, 0),
                               Call("tj3Destroy", NULL, 0)>>]
             ELSE [cx |-> i.cx, gerr |-> i.gerr, h |-> Handle(i.ret), res |-> Ok,
                   calls |-> <<Call("tj3Init", 0, i.ret)>>] :
          i \in tj3Init(cx, gerr)}

\* variant: the context returned by tj3Init is not tested for null
Handle_new_unchecked(cx, gerr) ==
    {[cx |-> i.cx, gerr |-> i.gerr, h |-> Handle(i.ret), res |-> Ok,
      calls |-> <<Call("tj3Init", 0, i.ret)>>] :
     i \in tj3Init(cx, gerr)}

\* Handle::new; the partially constructed `this` is dropped on the error path
Handle_new(cx, gerr) ==
    {IF i.ret = NULL
        THEN [cx |-> tj3Destroy(i.cx, NULL), gerr |-> i.gerr, h |-> NoTransformer,
              res |-> Handle_get_error(i.cx, i.gerr, Handle(NULL)),
              calls |-> <<Call("tj3Init", 0, i.ret), Call("tj3GetErrorStr", NULL, 0),
                          Call("tj3Destroy", NULL, 0)>>]
        ELSE [cx |-> i.cx, gerr |-> i.gerr, h |-> Handle(i.ret), res |-> Ok,
              calls |-> <<Call("tj3Init", 0, i.ret)>>] :
     i \in tj3Init(cx, gerr)}

\* variant: the status of tj3Set is not looked at
Handle_set_unchecked(cx, gerr, h, value) ==
    {[cx |-> s.cx, res |-> Ok, calls |-> <<Call("tj3Set", value, s.status)>>] :
     s \in tj3Set(cx, h.ptr, value)}

\* variant: the parameter is only written when it is to be switched on
Handle_set_lazy(cx, gerr, h, value) ==
    IF value = 0
    THEN {[cx |-> cx, res |-> Ok, calls |-> <<>>]}
    ELSE {IF s.status # 0
             THEN [cx |-> s.cx, res |-> Handle_get_error(s.cx, gerr, h),
                   calls |-> <<Call("tj3Set", value, s.status), Call("tj3GetErrorStr", h.ptr, 0)>>]
             ELSE [cx |-> s.cx, res |-> Ok, calls |-> <<Call("tj3Set", value, s.status)>>] :
          s \in tj3Set(cx, h.ptr, value)}

\* Handle::set
Handle_set(cx, gerr, h, value) ==
    {IF s.status # 0
        THEN [cx |-> s.cx, res |-> Handle_get_error(s.cx, gerr, h),
              calls |-> <<Call("tj3Set", value, s.status), Call("tj3GetErrorStr", h.ptr, 0)>>]
        ELSE [cx |-> s.cx, res |-> Ok, calls |-> <<Call("tj3Set", value, s.status)>>] :
     s \in tj3Set(cx, h.ptr, value)}

\* variant: the destructor does not destroy the context
Handle_drop_leaks(cx, h) == cx

\* impl Drop for Handle
Handle_drop(cx, h) == tj3Destroy(cx, h.ptr)

(* ---------------------------- transform.rs ---------------------------- *)
TJXOPT_PERFECT == 1
TJXOPT_TRIM == 2
TJXOPT_CROP == 4
TJXOPT_GRAY == 8
TJXOPT_PROGRESSIVE == 32
TJXOPT_COPYNONE == 64
TJXOPT_OPTIMIZE == 256
TJXOP_NONE == 0
TJXOP_HFLIP == 1
TJXOP_ROT90 == 5
TJXOP_ROT270 == 7

RECURSIVE BitOr(_, _)
BitOr(a, b) ==
    IF a = 0 THEN b
    ELSE IF b = 0 THEN a
    ELSE (IF a % 2 = 1 \/ b % 2 = 1 THEN 1 ELSE 0) + 2 * BitOr(a \div 2, b \div 2)

\* Option<usize>::None
None == -1
NoCrop == [some |-> FALSE, x |-> 0, y |-> 0, width |-> None, height |-> None]
Crop(x, y, w, h) == [some |-> TRUE, x |-> x, y |-> y, width |-> w, height |-> h]

\* Transform::default
DefaultTransform ==
    [op |-> TJXOP_NONE, crop |-> NoCrop, perfect |-> FALSE, trim |-> FALSE, gray |-> FALSE,
     progressive |-> FALSE, optimize |-> FALSE, copy_none |-> FALSE]

\* Transform::op
Transform_op(op) == [DefaultTransform EXCEPT !.op = op]

\* variant: the optimize flag sets the progressive bit
FlagOptions_copyPaste(cfg) ==
    LET o1 == IF cfg.perfect THEN BitOr(0, TJXOPT_PERFECT) ELSE 0
        o2 == IF cfg.trim THEN BitOr(o1, TJXOPT_TRIM) ELSE o1
        o3 == IF cfg.gray THEN BitOr(o2, TJXOPT_GRAY) ELSE o2
        o4 == IF cfg.progressive THEN BitOr(o3, TJXOPT_PROGRESSIVE) ELSE o3
        o5 == IF cfg.optimize THEN BitOr(o4, TJXOPT_PROGRESSIVE) ELSE o4
    IN  IF cfg.copy_none THEN BitOr(o5, TJXOPT_COPYNONE) ELSE o5

\* the options bitmask built from the boolean flags
FlagOptions(cfg) ==
    LET o1 == IF cfg.perfect THEN BitOr(0, TJXOPT_PERFECT) ELSE 0
        o2 == IF cfg.trim THEN BitOr(o1, TJXOPT_TRIM) ELSE o1
        o3 == IF cfg.gray THEN BitOr(o2, TJXOPT_GRAY) ELSE o2
        o4 == IF cfg.progressive THEN BitOr(o3, TJXOPT_PROGRESSIVE) ELSE o3
        o5 == IF cfg.optimize THEN BitOr(o4, TJXOPT_OPTIMIZE) ELSE o4
    IN  IF cfg.copy_none THEN BitOr(o5, TJXOPT_COPYNONE) ELSE o5

\* usize -> c_int by try_into(): fails above the c_int maximum
FitsCInt(v) == v <= INT_MAX

Region(x, y, w, h) == [x |-> x, y |-> y, w |-> w, h |-> h]

\* variant: crop.y is converted before crop.x
CropRegion_yFirst(crop, options) ==
    IF ~crop.some THEN [err |-> "", r |-> Region(0, 0, 0, 0), options |-> options]
    ELSE IF ~FitsCInt(crop.y) THEN [err |-> "crop.y", r |-> Region(0, 0, 0, 0), options |-> options]
    ELSE IF ~FitsCInt(crop.x) THEN [err |-> "crop.x", r |-> Region(0, 0, 0, 0), options |-> options]
    ELSE IF crop.width # None /\ ~FitsCInt(crop.width)
         THEN [err |-> "crop.width", r |-> Region(0, 0, 0, 0), options |-> options]
    ELSE IF crop.height # None /\ ~FitsCInt(crop.height)
         THEN [err |-> "crop.height", r |-> Region(0, 0, 0, 0), options |-> options]
    ELSE [err |-> "",
          r |-> Region(crop.x, crop.y,
                       IF crop.width # None THEN crop.width ELSE 0,
                       IF crop.height # None THEN crop.height ELSE 0),
          options |-> BitOr(options, TJXOPT_CROP)]

\* the crop conversion: the first field that does not fit ends the call
\* with IntegerOverflow(field); otherwise the region and the crop bit
CropRegion(crop, options) ==
    IF ~crop.some THEN [err |-> "", r |-> Region(0, 0, 0, 0), options |-> options]
    ELSE IF ~FitsCInt(crop.x) THEN [err |-> "crop.x", r |-> Region(0, 0, 0, 0), options |-> options]
    ELSE IF ~FitsCInt(crop.y) THEN [err |-> "crop.y", r |-> Region(0, 0, 0, 0), options |-> options]
    ELSE IF crop.width # None /\ ~FitsCInt(crop.width)
         THEN [err |-> "crop.width", r |-> Region(0, 0, 0, 0), options |-> options]
    ELSE IF crop.height # None /\ ~FitsCInt(crop.height)
         THEN [err |-> "crop.height", r |-> Region(0, 0, 0, 0), options |-> options]
    ELSE [err |-> "",
          r |-> Region(crop.x, crop.y,
                       IF crop.width # None THEN crop.width ELSE 0,
                       IF crop.height # None THEN crop.height ELSE 0),
          options |-> BitOr(options, TJXOPT_CROP)]

\* ffi::tjtransform handed to the native transform, with the region count
NoDesc == [n |-> 0, r |-> Region(0, 0, 0, 0), op |-> 0, options |-> 0]
Descriptor(cfg, c) == [n |-> 1, r |-> c.r, op |-> cfg.op, options |-> c.options]

\* variant: reallocation is always forbidden
NoReallocValue_one(output) == 1

\* variants: the parameter is inverted; the parameter is never set
NoReallocValue_swapped(output) == IF output.is_owned THEN 1 ELSE 0
NoReallocValue_zero(output) == 0

\* the value given to TJPARAM_NOREALLOC
NoReallocValue(output) == IF output.is_owned THEN 0 ELSE 1

(* ------------------- native transform (ffi::tj3Transform) ------------- *)
\* The JPEG input, reduced to what decides the native outcome: a valid image
\* whose transformed output takes `need` bytes, an invalid one, or a
\* degenerate one for which the native layer produces no output.
Input(kind, need) == [kind |-> kind, need |-> need]
Inputs ==
    {Input("valid", k) : k \in 1 .. MaxLen} \cup {Input("invalid", 0), Input("degenerate", 0)}
OutputBytes(input) == Fill(input.need, 1)

WriteAt(n, sl, p, bytes) ==
    IF p \in NativeAddrs /\ n.heap[p].live
    THEN [n |-> [n EXCEPT !.heap[p].data = Overwrite(@, bytes)], sl |-> sl]
    ELSE IF IsSliceAddr(p)
    THEN [n |-> n, sl |-> [sl EXCEPT ![SliceOf(p)] = Overwrite(@, bytes)]]
    ELSE [n |-> n, sl |-> sl]

\* the native layer releases the region at p and takes a new one holding data
Realloc(n, p, data) ==
    LET n1 == tj3Free(n, p)
    IN  {[n |-> [n1 EXCEPT !.heap[a] = [live |-> TRUE, data |-> data]], ptr |-> a] :
         a \in NativeAddrs \ LiveAddrs(n1)}

NativeResult(n, sl, status, ptr, len, err) ==
    [n |-> n, sl |-> sl, status |-> status, ptr |-> ptr, len |-> len, err |-> err]

\* TJPARAM_NOREALLOC set: the native layer writes in place at (p, len), fails
\* rather than exceed len, and never changes the address.
TransformInPlace(n, sl, err, p, len, input) ==
    IF input.kind = "valid" /\ input.need <= len
    THEN LET w == WriteAt(n, sl, p, OutputBytes(input))
         IN  {NativeResult(w.n, w.sl, 0, p, input.need, err)}
    ELSE IF input.kind = "valid"
    THEN {NativeResult(n, sl, -1, p, l, "Buffer too small") : l \in 0 .. len}
    ELSE IF input.kind = "invalid"
    THEN {NativeResult(n, sl, -1, p, len, "Not a JPEG file")}
    ELSE {NativeResult(n, sl, 0, p, 0, err)}

\* TJPARAM_NOREALLOC clear: the native layer owns the region at p; it may keep
\* it when the output fits, or release it and report a new region.  On an
\* invalid input it fails, having kept, regrown or released the region.  On a
\* degenerate input it reports success with a null address.
TransformGrow(n, sl, err, p, len, input) ==
    IF input.kind = "valid"
    THEN (IF p # NULL /\ input.need <= len
          THEN LET w == WriteAt(n, sl, p, OutputBytes(input))
               IN  {NativeResult(w.n, w.sl, 0, p, input.need, err)}
          ELSE {})
         \cup {NativeResult(r.n, sl, 0, r.ptr, input.need, err) :
               r \in Realloc(n, p, OutputBytes(input))}
    ELSE IF input.kind = "invalid"
    THEN {NativeResult(n, sl, -1, p, len, "Not a JPEG file")}
         \cup {NativeResult(r.n, sl, -1, r.ptr, MaxLen, "Not a JPEG file") :
               r \in Realloc(n, p, Fill(MaxLen, 1))}
         \cup {NativeResult(tj3Free(n, p), sl, -1, NULL, l, "Not a JPEG file") : l \in {0, len}}
    ELSE {NativeResult(tj3Free(n, p), sl, 0, NULL, l, err) : l \in {0, len, MaxLen}}

\* tj3Transform(handle, jpeg, len, 1, &mut ptr, &mut len, &mut transform)
tj3Transform(n, sl, ctx, p, len, input) ==
    IF ctx.noRealloc = 1
    THEN TransformInPlace(n, sl, ctx.err, p, len, input)
    ELSE TransformGrow(n, sl, ctx.err, p, len, input)

(* ---------------------- Transformer::transform ------------------------ *)
\* rep: the address and length the native transform reported, if it ran;
\* offered: the length it was given as the output's capacity
TOutcome(n, sl, cx, buf, res, calls, desc) ==
    [n |-> n, sl |-> sl, cx |-> cx, buf |-> buf, res |-> res, calls |-> calls, desc |-> desc,
     rep |-> [ptr |-> NULL, len |-> 0], offered |-> 0]

\* variant: a failure is reported without reading the error string
TransformResult_noFetch(cx, gerr, h, status, output) ==
    IF status # 0 THEN [buf |-> output, res |-> Err("TurboJpegError", ""), fetched |-> FALSE]
    ELSE IF output.ptr = NULL
    THEN [buf |-> [output EXCEPT !.len = 0], res |-> Err("Null", ""), fetched |-> FALSE]
    ELSE [buf |-> output, res |-> Ok, fetched |-> FALSE]

\* variant: the null check comes before the status check
TransformResult_nullFirst(cx, gerr, h, status, output) ==
    IF output.ptr = NULL
    THEN [buf |-> [output EXCEPT !.len = 0], res |-> Err("Null", ""), fetched |-> FALSE]
    ELSE IF status # 0
    THEN [buf |-> output, res |-> Handle_get_error(cx, gerr, h), fetched |-> TRUE]
    ELSE [buf |-> output, res |-> Ok, fetched |-> FALSE]

\* the result once the native transform has returned
TransformResult(cx, gerr, h, status, output) ==
    IF status # 0 THEN [buf |-> output, res |-> Handle_get_error(cx, gerr, h), fetched |-> TRUE]
    ELSE IF output.ptr = NULL
    THEN [buf |-> [output EXCEPT !.len = 0], res |-> Err("Null", ""), fetched |-> FALSE]
    ELSE [buf |-> output, res |-> Ok, fetched |-> FALSE]

\* variant: what the native call reported is stored only when it succeeded
CopyBack_onSuccess(output, r) ==
    IF r.status = 0 THEN [output EXCEPT !.ptr = r.ptr, !.len = r.len] ELSE output

\* variant: the length the native call reported is not stored
CopyBack_keepsLen(output, r) == [output EXCEPT !.ptr = r.ptr]

\* output.ptr is written by the native call itself; output.len = output_len
CopyBack(output, r) == [output EXCEPT !.ptr = r.ptr, !.len = r.len]

\* variant: a borrowed output is offered with the length of its slice
OfferedLen_slice(output) ==
    IF output.is_owned THEN output.len ELSE SliceLen(output.slice)

\* let mut output_len = output.len as ffi::size_t
OfferedLen(output) == output.len

\* the native call and everything after it
TransformCall(n, sl, cx, gerr, h, output, input, desc, calls) ==
    {LET cx1 == [cx EXCEPT ![h.ptr].err = r.err]
         out == CopyBack(output, r)
         t == TransformResult(cx1, gerr, h, r.status, out)
         c == calls \o <<Call("tj3Transform", cx[h.ptr].noRealloc, r.status)>>
                    \o (IF t.fetched THEN <<Call("tj3GetErrorStr", h.ptr, 0)>> ELSE <<>>)
     IN  [TOutcome(r.n, r.sl, cx1, t.buf, t.res, c, desc) EXCEPT
            !.rep = [ptr |-> r.ptr, len |-> r.len], !.offered = OfferedLen(output)] :
     r \in tj3Transform(n, sl, cx[h.ptr], output.ptr, OfferedLen(output), input)}

\* Transformer::transform
Transformer_transform(n, sl, cx, gerr, h, output, cfg, input) ==
    LET c == CropRegion(cfg.crop, FlagOptions(cfg))
        desc == Descriptor(cfg, c)
    IN  IF c.err # ""
        THEN {TOutcome(n, sl, cx, output, Err("IntegerOverflow", c.err), <<>>, NoDesc)}
        ELSE UNION {IF s.res # Ok
                       THEN {TOutcome(n, sl, s.cx, output, s.res, s.calls, NoDesc)}
                       ELSE TransformCall(n, sl, s.cx, gerr, h, output, input, desc, s.calls) :
                    s \in Handle_set(cx, gerr, h, NoReallocValue(output))}

(* ------------------------------ the program --------------------------- *)
NoInput == Input("none", 0)
\* What is observed of an operation: the transformer and buffer slot it ran
\* on, the buffer before it, its result, its native calls in order, and for a
\* transform the crop it was given, the input the native transform received
\* (NoInput when it was not invoked) and the descriptor handed to it.
\* A buffer conversion adds the source as its destructor found it.
\* A byte view adds the view it got and the addresses it dereferenced; a
\* transform adds its configuration, the capacity it offered to the native
\* transform, the address and length the native transform reported and the
\* context's no-reallocation parameter as the call found it.
NoReport == [ptr |-> NULL, len |-> 0]
Obs(op, t, b, pre, res, calls, crop, input, desc) ==
    [op |-> op, t |-> t, b |-> b, pre |-> pre, res |-> res, calls |-> calls,
     crop |-> crop, input |-> input, desc |-> desc,
     view |-> <<>>, read |-> {}, rep |-> NoReport, param |-> 0, moved |-> NoBuf,
     cfg |-> DefaultTransform, offered |-> 0]

\* crop values on both sides of the c_int maximum
CropVals == {INT_MAX, INT_MAX + 1}
CropSizes == {None, INT_MAX + 1}
Crops ==
    {NoCrop} \cup {Crop(x, y, w, h) : x \in CropVals, y \in CropVals,
                                      w \in CropSizes, h \in CropSizes}
Configs == {[DefaultTransform EXCEPT !.crop = c] : c \in Crops}

Lent == {bufs[b].slice : b \in BufIds} \ {0}

Init ==
    /\ heap = [a \in NativeAddrs |-> FreeCell]
    /\ badFree = {}
    /\ slices = [s \in Slices |-> Fill(SliceLen(s), 0)]
    /\ bufs = [b \in BufIds |-> NoBuf]
    /\ ctxs = [c \in CtxIds |-> DeadCtx]
    /\ globalErr = "No error"
    /\ trs = [t \in Tids |-> NoTransformer]
    /\ last = Obs("init", 0, 0, NoBuf, Ok, <<>>, NoCrop, NoInput, NoDesc)

\* the effect of a buffer operation's outcome o on slot b
BufStep(op, b, o) ==
    /\ heap' = o.n.heap
    /\ badFree' = o.n.bad
    /\ bufs' = [bufs EXCEPT ![b] = o.buf]
    /\ last' = [Obs(op, 0, b, bufs[b], o.res, o.calls, NoCrop, NoInput, NoDesc)
                    EXCEPT !.moved = o.moved]
    /\ UNCHANGED <<slices, ctxs, globalErr, trs>>

Now == Native(heap, badFree)

NewOwnedBuf(b) ==
    /\ bufs[b].kind = "none"
    /\ BufStep("OwnedBuf::new", b, Outcome(Now, <<>>, Ok, OwnedBuf_new))

Allocate(b, len) ==
    /\ bufs[b].kind = "none"
    /\ \E o \in OwnedBuf_allocate(Now, len) : BufStep("OwnedBuf::allocate", b, o)

CopyFromSlice(b, s) ==
    /\ bufs[b].kind = "none"
    /\ s \notin Lent
    /\ \E o \in OwnedBuf_copy_from_slice(Now, slices[s]) : BufStep("OwnedBuf::copy_from_slice", b, o)

Borrowed(b, s) ==
    /\ bufs[b].kind = "none"
    /\ s \notin Lent
    /\ BufStep("OutputBuf::borrowed", b, Outcome(Now, <<>>, Ok, OutputBuf_borrowed(s)))

Owned(b) ==
    /\ bufs[b].kind = "OwnedBuf"
    /\ BufStep("OutputBuf::owned", b, OutputBuf_owned(Now, bufs[b]))

NewOwned(b) ==
    /\ bufs[b].kind = "none"
    /\ BufStep("OutputBuf::new_owned", b, OutputBuf_new_owned(Now))

AllocateOwned(b, cap) ==
    /\ bufs[b].kind = "none"
    /\ \E o \in OutputBuf_allocate_owned(Now, cap) : BufStep("OutputBuf::allocate_owned", b, o)

IntoOwned(b) ==
    /\ bufs[b].kind = "OutputBuf"
    /\ \E o \in OutputBuf_into_owned(Now, slices, bufs[b]) : BufStep("OutputBuf::into_owned", b, o)

DropOwnedBuf(b) ==
    /\ bufs[b].kind = "OwnedBuf"
    /\ BufStep("drop OwnedBuf", b, OwnedBuf_drop(Now, bufs[b]))

DropOutputBuf(b) ==
    /\ bufs[b].kind = "OutputBuf"
    /\ BufStep("drop OutputBuf", b, OutputBuf_drop(Now, bufs[b]))

\* Deref::deref / AsRef::as_ref of an OwnedBuf or an OutputBuf
Deref(b) ==
    /\ bufs[b].kind # "none"
    /\ \E v \in deref(heap, slices, bufs[b].ptr, bufs[b].len) :
        last' = [Obs("deref", 0, b, bufs[b], v.res, <<>>, NoCrop, NoInput, NoDesc)
                    EXCEPT !.view = v.view, !.read = v.read]
    /\ UNCHANGED <<heap, badFree, slices, bufs, ctxs, globalErr, trs>>

\* DerefMut::deref_mut / AsMut::as_mut of an OwnedBuf or an OutputBuf
DerefMut(b) ==
    /\ bufs[b].kind # "none"
    /\ \E v \in deref_mut(heap, slices, bufs[b].ptr, bufs[b].len) :
        last' = [Obs("deref_mut", 0, b, bufs[b], v.res, <<>>, NoCrop, NoInput, NoDesc)
                    EXCEPT !.view = v.view, !.read = v.read]
    /\ UNCHANGED <<heap, badFree, slices, bufs, ctxs, globalErr, trs>>

\* Transformer::new
TransformerNew(t) ==
    /\ trs[t].state = "none"
    /\ \E o \in Handle_new(ctxs, globalErr) :
        /\ ctxs' = o.cx
        /\ globalErr' = o.gerr
        /\ trs' = [trs EXCEPT ![t] = o.h]
        /\ last' = Obs("Transformer::new", t, 0, NoBuf, o.res, o.calls, NoCrop, NoInput, NoDesc)
    /\ UNCHANGED <<heap, badFree, slices, bufs>>

\* the Transformer goes out of scope
DropTransformer(t) ==
    /\ trs[t].state = "ready"
    /\ ctxs' = Handle_drop(ctxs, trs[t])
    /\ trs' = [trs EXCEPT ![t] = NoTransformer]
    /\ last' = Obs("drop Transformer", t, 0, NoBuf, Ok,
                   <<Call("tj3Destroy", trs[t].ptr, 0)>>, NoCrop, NoInput, NoDesc)
    /\ UNCHANGED <<heap, badFree, slices, bufs, globalErr>>

Transform(t, b, cfg, input) ==
    /\ trs[t].state = "ready"
    /\ bufs[b].kind = "OutputBuf"
    /\ \E o \in Transformer_transform(Now, slices, ctxs, globalErr, trs[t], bufs[b], cfg, input) :
        /\ heap' = o.n.heap
        /\ badFree' = o.n.bad
        /\ slices' = o.sl
        /\ ctxs' = o.cx
        /\ bufs' = [bufs EXCEPT ![b] = o.buf]
        /\ last' = [Obs("transform", t, b, bufs[b], o.res, o.calls, cfg.crop,
                        IF \E i \in 1 .. Len(o.calls) : o.calls[i].f = "tj3Transform"
                           THEN input ELSE NoInput,
                        o.desc)
                       EXCEPT !.rep = o.rep, !.param = ctxs[trs[t].ptr].noRealloc,
                              !.cfg = cfg, !.offered = o.offered]
    /\ UNCHANGED <<globalErr, trs>>

Next ==
    \/ \E b \in BufIds : NewOwnedBuf(b)
    \/ \E b \in BufIds, len \in Lens : Allocate(b, len)
    \/ \E b \in BufIds, s \in Slices : CopyFromSlice(b, s)
    \/ \E b \in BufIds, s \in Slices : Borrowed(b, s)
    \/ \E b \in BufIds : Owned(b)
    \/ \E b \in BufIds : NewOwned(b)
    \/ \E b \in BufIds, cap \in Lens : AllocateOwned(b, cap)
    \/ \E b \in BufIds : IntoOwned(b)
    \/ \E b \in BufIds : DropOwnedBuf(b)
    \/ \E b \in BufIds : DropOutputBuf(b)
    \/ \E b \in BufIds : Deref(b)
    \/ \E b \in BufIds : DerefMut(b)
    \/ \E t \in Tids : TransformerNew(t)
    \/ \E t \in Tids : DropTransformer(t)
    \/ \E t \in Tids, b \in BufIds, cfg \in Configs, input \in Inputs : Transform(t, b, cfg, input)

Spec == Init /\ [][Next]_vars

(* ------------- Transformers on separate threads ----------------------- *)
\* Each thread owns one Transformer and one OutputBuf (Transformer holds its
\* Handle by value and transform takes &mut self and &mut OutputBuf, so no
\* two threads can hold the same one).  A thread's transform call proceeds
\* one native call at a time; the native calls of different threads
\* interleave.  Here bufs, ctxs, trs and last are indexed by thread, and
\* trs[th].state tells where the thread is: "none", "ready", or inside
\* transform before the set ("set"), before the native transform ("call"),
\* or before the fetch of the error string ("fetch").
MaxThreads == 2
Threads == 1 .. MaxThreads
Running == [kind |-> "Running", msg |-> ""]
InCall(th) == trs[th].state \in {"set", "call", "fetch"}

\* the output buffers the threads start with: OutputBuf::borrowed of the
\* non-empty slice, which no other thread has borrowed, or OutputBuf::new_owned()
ThreadBufs ==
    {f \in [Threads -> {OutputBuf_borrowed(2), OutputBuf(NULL, 0, TRUE, 0)}] :
        \A t1, t2 \in Threads : (t1 # t2 /\ f[t1].slice # 0) => f[t1].slice # f[t2].slice}

\* the configurations the threads use: the default, and a crop that overflows
ThreadConfigs ==
    {DefaultTransform,
     [DefaultTransform EXCEPT !.crop = Crop(INT_MAX, INT_MAX + 1, None, None)]}

ConcInit ==
    /\ heap = [a \in NativeAddrs |-> FreeCell]
    /\ badFree = {}
    /\ slices = [s \in Slices |-> Fill(SliceLen(s), 0)]
    /\ bufs \in ThreadBufs
    /\ ctxs = [c \in Threads |-> DeadCtx]
    /\ globalErr = "No error"
    /\ trs = [th \in Threads |-> NoTransformer]
    /\ last = [th \in Threads |-> Obs("init", 0, 0, NoBuf, Ok, <<>>, NoCrop, NoInput, NoDesc)]

\* Transformer::new on thread th
ThreadNew(th) ==
    /\ trs[th].state = "none"
    /\ \E o \in Handle_new(ctxs, globalErr) :
        /\ ctxs' = o.cx
        /\ globalErr' = o.gerr
        /\ trs' = [trs EXCEPT ![th] = o.h]
        /\ last' = [last EXCEPT ![th] =
                        Obs("Transformer::new", th, 0, NoBuf, o.res, o.calls, NoCrop, NoInput, NoDesc)]
    /\ UNCHANGED <<heap, badFree, slices, bufs>>

\* thread th drops its Transformer
ThreadDrop(th) ==
    /\ trs[th].state = "ready"
    /\ ctxs' = Handle_drop(ctxs, trs[th])
    /\ trs' = [trs EXCEPT ![th] = NoTransformer]
    /\ last' = [last EXCEPT ![th] =
                    Obs("drop Transformer", th, 0, NoBuf, Ok,
                        <<Call("tj3Destroy", trs[th].ptr, 0)>>, NoCrop, NoInput, NoDesc)]
    /\ UNCHANGED <<heap, badFree, slices, bufs, globalErr>>

\* transform, up to the first native call: the options and the crop region
\* (a thread calls transform once on each Transformer it creates)
ThreadStart(th, cfg, input) ==
    /\ trs[th].state = "ready"
    /\ last[th].op = "Transformer::new"
    /\ LET c == CropRegion(cfg.crop, FlagOptions(cfg))
       IN  IF c.err # ""
           THEN /\ last' = [last EXCEPT ![th] =
                               Obs("transform", th, th, bufs[th], Err("IntegerOverflow", c.err),
                                   <<>>, cfg.crop, input, NoDesc)]
                /\ UNCHANGED trs
           ELSE /\ last' = [last EXCEPT ![th] =
                               Obs("transform", th, th, bufs[th], Running,
                                   <<>>, cfg.crop, input, Descriptor(cfg, c))]
                /\ trs' = [trs EXCEPT ![th].state = "set"]
    /\ UNCHANGED <<heap, badFree, slices, bufs, ctxs, globalErr>>

\* self.handle.set(TJPARAM_NOREALLOC, ...): the native set
ThreadSet(th) ==
    /\ trs[th].state = "set"
    /\ \E s \in tj3Set(ctxs, trs[th].ptr, NoReallocValue(bufs[th])) :
        /\ ctxs' = s.cx
        /\ last' = [last EXCEPT ![th].calls =
                        Append(@, Call("tj3Set", NoReallocValue(bufs[th]), s.status))]
        /\ trs' = [trs EXCEPT ![th].state = IF s.status # 0 THEN "fetch" ELSE "call"]
    /\ UNCHANGED <<heap, badFree, slices, bufs, globalErr>>

\* the native transform, the copy back, and the null check when it succeeded
ThreadCall(th) ==
    /\ trs[th].state = "call"
    /\ \E r \in tj3Transform(Now, slices, ctxs[trs[th].ptr], bufs[th].ptr,
                              OfferedLen(bufs[th]), last[th].input) :
        LET cx1 == [ctxs EXCEPT ![trs[th].ptr].err = r.err]
            out == CopyBack(bufs[th], r)
            t == TransformResult(cx1, globalErr, Handle(trs[th].ptr), r.status, out)
            c == Call("tj3Transform", ctxs[trs[th].ptr].noRealloc, r.status)
        IN  /\ heap' = r.n.heap
            /\ badFree' = r.n.bad
            /\ slices' = r.sl
            /\ ctxs' = cx1
            /\ bufs' = [bufs EXCEPT ![th] = t.buf]
            /\ last' = [last EXCEPT ![th] =
                            [@ EXCEPT !.calls = Append(@, c),
                                      !.res = IF t.fetched THEN Running ELSE t.res,
                                      !.rep = [ptr |-> r.ptr, len |-> r.len]]]
            /\ trs' = [trs EXCEPT ![th].state = IF t.fetched THEN "fetch" ELSE "ready"]
    /\ UNCHANGED globalErr

\* self.handle.get_error() after a failed native call
ThreadFetch(th) ==
    /\ trs[th].state = "fetch"
    /\ last' = [last EXCEPT ![th] =
                    [@ EXCEPT !.calls = Append(@, Call("tj3GetErrorStr", trs[th].ptr, 0)),
                              !.res = Handle_get_error(ctxs, globalErr, Handle(trs[th].ptr))]]
    /\ trs' = [trs EXCEPT ![th].state = "ready"]
    /\ UNCHANGED <<heap, badFree, slices, bufs, ctxs, globalErr>>

ConcNext ==
    \/ \E th \in Threads : ThreadNew(th)
    \/ \E th \in Threads : ThreadDrop(th)
    \/ \E th \in Threads, cfg \in ThreadConfigs, input \in Inputs : ThreadStart(th, cfg, input)
    \/ \E th \in Threads : ThreadSet(th)
    \/ \E th \in Threads : ThreadCall(th)
    \/ \E th \in Threads : ThreadFetch(th)

ConcSpec == ConcInit /\ [][ConcNext]_vars

(* ------------- the descriptor over the whole of Transform -------------- *)
\* One Transformer and owned output buffers, with transform called on every
\* combination of the six flags, for a few operations and crops; each
\* transform gets an output buffer of its own.
OpsAndCrops ==
    {<<TJXOP_NONE, NoCrop>>,
     <<TJXOP_HFLIP, Crop(1, 2, None, None)>>,
     <<TJXOP_ROT90, Crop(INT_MAX, 0, 3, None)>>,
     <<TJXOP_ROT270, Crop(0, INT_MAX, 3, 4)>>,
     <<TJXOP_ROT90, Crop(1, 2, None, INT_MAX + 1)>>}
AllConfigs ==
    {[Transform_op(oc[1]) EXCEPT !.crop = oc[2], !.perfect = f[1], !.trim = f[2], !.gray = f[3],
                                 !.progressive = f[4], !.optimize = f[5], !.copy_none = f[6]] :
        oc \in OpsAndCrops, f \in [1 .. 6 -> BOOLEAN]}
DescInputs == {Input("valid", 1), Input("invalid", 0)}

DescTransform(t, b, cfg, input) ==
    /\ last.op # "transform"
    /\ Transform(t, b, cfg, input)

DescNext ==
    \/ \E b \in BufIds : NewOwned(b)
    \/ \E b \in BufIds : DropOutputBuf(b)
    \/ \E t \in Tids : TransformerNew(t)
    \/ \E t \in Tids, b \in BufIds, cfg \in AllConfigs, input \in DescInputs :
            DescTransform(t, b, cfg, input)

DescSpec == Init /\ [][DescNext]_vars

(* ======================== properties of the program =================== *)
Owning(b) == bufs[b].kind # "none" /\ bufs[b].is_owned
OwnedAddrs == {bufs[b].ptr : b \in {x \in BufIds : Owning(x)}} \ {NULL}
NativeCalled(f) == \E i \in 1 .. Len(last.calls) : last.calls[i].f = f
CallsOf(f) == {i \in 1 .. Len(last.calls) : last.calls[i].f = f}

\* C1: every address obtained from the native allocator, or reported by the
\* native transform as an owned buffer's region, is released exactly once:
\* no native address is ever handed to the native free while it is not a live
\* allocation (never twice), the live allocations are at every moment exactly
\* the non-null addresses held by the owning buffers, each held by one buffer
\* only, so that nothing is left allocated once all buffers are dropped.  (A
\* region the native transform replaces is released by the native layer.)
C1_ReleasedExactlyOnce ==
    /\ badFree \cap NativeAddrs = {}
    /\ LiveAddrs(Now) = OwnedAddrs
    /\ \A b1, b2 \in BufIds :
        (b1 # b2 /\ Owning(b1) /\ Owning(b2) /\ bufs[b1].ptr # NULL) => bufs[b1].ptr # bufs[b2].ptr
    /\ (\A b \in BufIds : bufs[b].kind = "none") => LiveAddrs(Now) = {}

\* an owned OutputBuf that held a native address has been dropped, after a
\* conversion or a transform, and nothing is left allocated
C1_Witness ==
    /\ last.op = "drop OutputBuf"
    /\ last.pre.is_owned
    /\ last.pre.ptr \in NativeAddrs
    /\ last.calls = <<Call("tj3Free", last.pre.ptr, 0)>>
    /\ LiveAddrs(Now) = {}

\* C2: into_owned on an owned buffer returns an OwnedBuf with the same address
\* and length, makes no native allocation, copies no byte (native and caller
\* memory are unchanged), and the consumed OutputBuf's destructor does not
\* release the address: the only native call is the free of a null pointer and
\* the region stays allocated.
C2_IntoOwnedMoves ==
    [][\A b \in BufIds :
        (IntoOwned(b) /\ bufs[b].is_owned) =>
            /\ bufs'[b] = OwnedBuf(bufs[b].ptr, bufs[b].len)
            /\ heap' = heap
            /\ slices' = slices
            /\ badFree' = badFree
            /\ \A i \in 1 .. Len(last'.calls) :
                /\ last'.calls[i].f # "tj3Alloc"
                /\ last'.calls[i].f = "tj3Free" => last'.calls[i].a = NULL
            /\ bufs[b].ptr # NULL => heap'[bufs[b].ptr].live]_vars

\* into_owned has moved a non-null region out of an owned OutputBuf
C2_Witness ==
    /\ last.op = "OutputBuf::into_owned"
    /\ last.pre.is_owned
    /\ last.pre.ptr \in NativeAddrs
    /\ last.pre.len > 0
    /\ bufs[last.b] = OwnedBuf(last.pre.ptr, last.pre.len)

\* C3: after transform returns, with Ok or with any Err, the output buffer
\* never holds a null address together with a nonzero length.
C3_NoNullWithLength ==
    last.op = "transform" => (bufs[last.b].len > 0 => bufs[last.b].ptr # NULL)

\* C4: a transform into a borrowed OutputBuf whose length is smaller than the
\* output the input requires returns Err(TurboJpegError), and the buffer's len
\* afterwards does not exceed the length of the slice it was created from.
\* (The call is one whose crop converts; it either fails to set the
\* no-reallocation parameter, whatever the input, or reaches the native
\* transform with the input that does not fit.)
C4_BorrowedTooSmallFails ==
    (/\ last.op = "transform"
     /\ ~last.pre.is_owned
     /\ last.res.kind # "IntegerOverflow"
     /\ \/ ~NativeCalled("tj3Transform")
        \/ last.input.kind = "valid" /\ last.pre.len < last.input.need)
    => /\ last.res.kind = "TurboJpegError"
       /\ bufs[last.b].len <= SliceLen(last.pre.slice)

\* the native layer has refused to write past a borrowed buffer
C4_Witness ==
    /\ last.op = "transform"
    /\ ~last.pre.is_owned
    /\ last.input.kind = "valid"
    /\ 0 < last.pre.len
    /\ last.pre.len < last.input.need
    /\ last.res = Err("TurboJpegError", "Buffer too small")
    /\ NativeCalled("tj3Transform")

\* C5: transform never replaces a borrowed buffer's address: after the call,
\* successful or not, the address is that of the caller's slice, and whenever
\* the wrapper sets the no-reallocation parameter or invokes the native
\* transform for a borrowed buffer, the parameter is 1.
C5_BorrowedAddressKept ==
    (last.op = "transform" /\ ~last.pre.is_owned)
    => /\ bufs[last.b].ptr = SliceAddr(last.pre.slice)
       /\ \A i \in CallsOf("tj3Set") : last.calls[i].a = 1
       /\ \A i \in CallsOf("tj3Transform") : last.calls[i].a = 1
       /\ last.res = Ok => NativeCalled("tj3Set") /\ NativeCalled("tj3Transform")

\* a transform into a borrowed buffer has succeeded and written in place
C5_Witness ==
    /\ last.op = "transform"
    /\ ~last.pre.is_owned
    /\ last.res = Ok
    /\ bufs[last.b].len > 0
    /\ slices[last.pre.slice][1] = 1

\* C6: the ownership tag of an OutputBuf is never changed by an operation on
\* it; the destructor calls the native free if and only if the buffer is
\* owned; and no operation, into_owned on a borrowed buffer included, hands an
\* address of a caller's slice to the native free.
C6_OwnershipFixed ==
    [][/\ \A b \in BufIds :
            (bufs[b].kind = "OutputBuf" /\ bufs'[b].kind = "OutputBuf")
                => bufs'[b].is_owned = bufs[b].is_owned
       /\ \A b \in BufIds :
            DropOutputBuf(b) =>
                ((\E i \in 1 .. Len(last'.calls) : last'.calls[i].f = "tj3Free") <=> bufs[b].is_owned)
       /\ \A i \in 1 .. Len(last'.calls) :
            last'.calls[i].f = "tj3Free" => last'.calls[i].a \notin SliceAddrs
       /\ badFree' \cap SliceAddrs = {}]_vars

\* a borrowed buffer that a transform wrote into has been dropped without a free
C6_Witness ==
    /\ last.op = "drop OutputBuf"
    /\ ~last.pre.is_owned
    /\ last.pre.len = 1
    /\ last.calls = <<>>

\* the fields of a crop in the order crop.x, crop.y, crop.width, crop.height
CropFieldNames == <<"crop.x", "crop.y", "crop.width", "crop.height">>
CropFieldValues(crop) == <<crop.x, crop.y, crop.width, crop.height>>
Exceeding(crop) ==
    IF crop.some THEN {i \in 1 .. 4 : CropFieldValues(crop)[i] > INT_MAX} ELSE {}
FirstExceeding(crop) ==
    CropFieldNames[CHOOSE i \in Exceeding(crop) : \A j \in Exceeding(crop) : i <= j]

\* C7: a transform whose crop has an x, y, width or height above the native
\* integer's maximum returns IntegerOverflow naming the first such field in
\* the order crop.x, crop.y, crop.width, crop.height, makes no native call (no
\* set_param, no native transform) and leaves the output buffer unchanged.
C7_CropOverflow ==
    (last.op = "transform" /\ Exceeding(last.crop) # {})
    => /\ last.res = Err("IntegerOverflow", FirstExceeding(last.crop))
       /\ last.calls = <<>>
       /\ bufs[last.b] = last.pre

\* a transform whose crop width and height both exceed the maximum has been
\* refused for its width
C7_Witness ==
    /\ last.op = "transform"
    /\ Exceeding(last.crop) = {3, 4}
    /\ last.res = Err("IntegerOverflow", "crop.width")
    /\ last.calls = <<>>
    /\ bufs[last.b] = last.pre

\* C8: once the native transform has been invoked, a nonzero status yields
\* Err(TurboJpegError) with the handle's current error string whatever the
\* address; otherwise a null address yields Err(Null) and a zero length;
\* otherwise Ok.
C8_ResultOrder ==
    (last.op = "transform" /\ NativeCalled("tj3Transform"))
    => \A i \in CallsOf("tj3Transform") :
        IF last.calls[i].r # 0
        THEN last.res = Err("TurboJpegError", ctxs[trs[last.t].ptr].err)
        ELSE IF bufs[last.b].ptr = NULL
        THEN last.res = Err("Null", "") /\ bufs[last.b].len = 0
        ELSE last.res = Ok

\* the native transform has failed and reported a null address
C8_Witness ==
    /\ last.op = "transform"
    /\ \E i \in CallsOf("tj3Transform") : last.calls[i].r # 0
    /\ bufs[last.b].ptr = NULL
    /\ last.res = Err("TurboJpegError", "Not a JPEG file")

\* C9: a transform into an owned OutputBuf never fails for lack of space: the
\* no-reallocation parameter is 0 whenever it is set and when the native
\* transform runs, the error is never the native "buffer too small", a valid
\* input that reaches the native transform gives Ok, and on Ok the buffer's
\* len is the size of the output the native layer produced, found at the
\* buffer's address.
C9_OwnedNeverLacksSpace ==
    (last.op = "transform" /\ last.pre.is_owned)
    => /\ \A i \in CallsOf("tj3Set") : last.calls[i].a = 0
       /\ \A i \in CallsOf("tj3Transform") : last.calls[i].a = 0
       /\ last.res.msg # "Buffer too small"
       /\ (last.input.kind = "valid" /\ NativeCalled("tj3Transform")) => last.res = Ok
       /\ last.res = Ok =>
            /\ bufs[last.b].len = last.input.need
            /\ bufs[last.b].ptr \in NativeAddrs
            /\ heap[bufs[last.b].ptr].live
            /\ Take(heap[bufs[last.b].ptr].data, bufs[last.b].len) = OutputBytes(last.input)

\* a transform into OutputBuf::new_owned() has produced MaxLen bytes
C9_Witness ==
    /\ last.op = "transform"
    /\ last.pre = OutputBuf(NULL, 0, TRUE, 0)
    /\ last.res = Ok
    /\ bufs[last.b].len = MaxLen

\* C10: into_owned on a borrowed buffer (when the allocation succeeds) requests
\* a native region of the buffer's current length, which was not allocated
\* before, copies exactly the buffer's bytes into it and returns it: its
\* address is not the slice's, and the caller's slice is unchanged and not
\* released.
C10_IntoOwnedCopies ==
    [][\A b \in BufIds :
        (IntoOwned(b) /\ ~bufs[b].is_owned /\ last'.res = Ok) =>
            /\ bufs'[b].kind = "OwnedBuf"
            /\ bufs'[b].len = bufs[b].len
            /\ bufs'[b].ptr \in NativeAddrs
            /\ bufs'[b].ptr # SliceAddr(bufs[b].slice)
            /\ ~heap[bufs'[b].ptr].live
            /\ heap'[bufs'[b].ptr] = [live |-> TRUE, data |-> Take(slices[bufs[b].slice], bufs[b].len)]
            /\ last'.calls = <<Call("tj3Alloc", bufs[b].len, bufs'[b].ptr)>>
            /\ slices' = slices
            /\ badFree' = badFree]_vars

\* into_owned has copied one transformed byte out of a borrowed buffer
C10_Witness ==
    /\ last.op = "OutputBuf::into_owned"
    /\ ~last.pre.is_owned
    /\ last.res = Ok
    /\ last.pre.len = 1
    /\ bufs[last.b].ptr \in NativeAddrs
    /\ heap[bufs[last.b].ptr].data = <<1>>

\* C11: a byte view (deref, deref_mut, as_ref, as_mut) of an OwnedBuf or an
\* OutputBuf whose length is 0 is the empty view and is obtained without
\* dereferencing the buffer's address, null or not: no assertion, no fault.
C11_EmptyView ==
    (last.op \in {"deref", "deref_mut"} /\ last.pre.len = 0)
    => /\ last.res = Ok
       /\ last.view = <<>>
       /\ last.read = {}

\* a mutable view of an output buffer holding the null address has been taken
C11_Witness ==
    /\ last.op = "deref_mut"
    /\ last.pre = OutputBuf(NULL, 0, TRUE, 0)
    /\ last.res = Ok
    /\ last.view = <<>>

\* C12: OwnedBuf::allocate(len), called directly or through copy_from_slice,
\* allocate_owned or into_owned, aborts when the native allocator returns null
\* for a nonzero len; when the allocator returns an address, the buffer holds
\* that address with length len; and a request for len = 0 never aborts, even
\* if the allocator returns null.
C12_AllocateContract ==
    \A i \in CallsOf("tj3Alloc") :
        LET len == last.calls[i].a
            ret == last.calls[i].r
        IN  /\ (ret = NULL /\ len # 0) => last.res = Panic
            /\ ret # NULL =>
                /\ last.res = Ok
                /\ bufs[last.b].ptr = ret
                /\ bufs[last.b].len = len
            /\ len = 0 => last.res # Panic

\* C13: Handle::new, and with it Transformer::new, returns Err(TurboJpegError)
\* exactly when the native initializer returned a null context; the error
\* carries the native error string, fetched through the partially
\* constructed wrapper (whose context is null) right after the initializer;
\* when the initializer returned a context, the result is Ok and the handle
\* holds that context, which is live.
C13_HandleNew ==
    last.op = "Transformer::new" =>
        LET ret == last.calls[1].r
        IN  /\ last.calls[1].f = "tj3Init"
            /\ (ret = NULL) <=> (last.res.kind = "TurboJpegError")
            /\ ret = NULL =>
                /\ last.res = Err("TurboJpegError", globalErr)
                /\ last.calls[2] = Call("tj3GetErrorStr", NULL, 0)
                /\ trs[last.t] = NoTransformer
            /\ ret # NULL =>
                /\ last.res = Ok
                /\ trs[last.t] = Handle(ret)
                /\ ctxs[ret].live

\* the native initializer has failed and its message has been returned
C13_Witness ==
    /\ last.op = "Transformer::new"
    /\ last.calls[1] = Call("tj3Init", 0, NULL)
    /\ last.res = Err("TurboJpegError", "Init failed")
    /\ trs[last.t] = NoTransformer

\* C14: every context the native initializer returned is passed to the native
\* destroy exactly once, when the Handle/Transformer owning it is dropped: a
\* context stops being live only in the drop of its owner, whose one native
\* call is the destroy of that context; no destroy is ever given a context
\* that is not live (so never a second time); every live context is held by
\* exactly one Transformer (so none is left undestroyed once all are
\* dropped); and the native calls of a transform (set parameter, transform,
\* error string) are made on a context that is live before and after.
C14_ContextDestroyedOnce ==
    [][/\ \A c \in CtxIds :
            (ctxs[c].live /\ ~ctxs'[c].live) =>
                /\ last'.op = "drop Transformer"
                /\ trs[last'.t] = Handle(c)
                /\ trs'[last'.t] = NoTransformer
       /\ \A i \in 1 .. Len(last'.calls) :
            (last'.calls[i].f = "tj3Destroy" /\ last'.calls[i].a # NULL) =>
                ctxs[last'.calls[i].a].live
       /\ last'.op = "drop Transformer" =>
            /\ last'.calls = <<Call("tj3Destroy", trs[last'.t].ptr, 0)>>
            /\ trs[last'.t].ptr \in CtxIds
            /\ ~ctxs'[trs[last'.t].ptr].live
       /\ last'.op = "transform" =>
            /\ trs[last'.t].ptr \in CtxIds
            /\ ctxs[trs[last'.t].ptr].live
            /\ ctxs'[trs[last'.t].ptr].live
            /\ \A i \in 1 .. Len(last'.calls) : last'.calls[i].f # "tj3Destroy"
       /\ \A c \in CtxIds : ctxs'[c].live <=> (\E t \in Tids : trs'[t] = Handle(c))
       /\ \A t1, t2 \in Tids :
            (t1 # t2 /\ trs'[t1].state = "ready") => trs'[t1].ptr # trs'[t2].ptr]_vars

\* a Transformer has been dropped and its context destroyed
C14_Witness ==
    /\ last.op = "drop Transformer"
    /\ last.calls = <<Call("tj3Destroy", 1, 0)>>
    /\ ~ctxs[1].live
    /\ trs[last.t] = NoTransformer

\* C15: a Transformer stays ready, with the same live context, across every
\* transform call, successful or failed, and keeps nothing of earlier calls
\* that a later call depends on: whatever a call does (its result, the output
\* buffer it leaves, its native calls, the memory it writes) is something the
\* same call, with the same configuration, input and output buffer, can do on
\* a Transformer whose context has just been created.
C15_NoStateBetweenCalls ==
    [][last'.op = "transform" =>
        LET t == last'.t
            b == last'.b
            h == trs[t]
            cfg == [DefaultTransform EXCEPT !.crop = last'.crop]
            ins == IF last'.input = NoInput THEN Inputs ELSE {last'.input}
            fresh == [ctxs EXCEPT ![h.ptr] = FreshCtx]
        IN  /\ trs' = trs
            /\ trs'[t].state = "ready"
            /\ ctxs'[h.ptr].live
            /\ \E input \in ins :
                \E o \in Transformer_transform(Now, slices, fresh, globalErr, h, bufs[b], cfg, input) :
                    /\ o.res = last'.res
                    /\ o.buf = bufs'[b]
                    /\ o.calls = last'.calls
                    /\ o.rep = last'.rep
                    /\ o.n.heap = heap'
                    /\ o.n.bad = badFree'
                    /\ o.sl = slices']_vars

\* a transform has succeeded on a Transformer whose context still holds the
\* error message and the parameter of earlier calls
C15_Witness ==
    /\ last.op = "transform"
    /\ last.res = Ok
    /\ last.pre.is_owned
    /\ last.param = 1
    /\ ctxs[trs[last.t].ptr].err = "Buffer too small"

\* what the transform call that thread th has made can do when it runs with
\* no other thread: the same Transformer with a context just created, the
\* same configuration and input, the output buffer as the call found it, and
\* a native heap holding nothing but that buffer's region
AloneHeap(buf) ==
    LET cell(a) == IF buf.is_owned /\ a = buf.ptr
                   THEN [live |-> TRUE, data |-> Fill(MaxLen, Uninit)]
                   ELSE FreeCell
        upTo[i \in 0 .. MaxNative] == IF i = 0 THEN <<>> ELSE Append(upTo[i - 1], cell(i))
    IN  upTo[MaxNative]
Alone(th) ==
    Transformer_transform(Native(AloneHeap(last[th].pre), {}),
                          [s \in Slices |-> Fill(SliceLen(s), 0)],
                          [ctxs EXCEPT ![trs[th].ptr] = FreshCtx], globalErr,
                          Handle(trs[th].ptr), last[th].pre,
                          [DefaultTransform EXCEPT !.crop = last[th].crop], last[th].input)

\* C16: when several Transformers, each with its own handle and its own
\* output buffer, run transform calls whose native calls interleave, no two
\* calls in progress use the same native context or the same output memory,
\* the context of a call in progress is live, and each finished call's
\* result, error string, native calls, reported length and, on success,
\* output bytes are those of the same call run alone.
C16_IndependentTransformers ==
    /\ \A t1, t2 \in Threads :
        (t1 # t2 /\ InCall(t1) /\ InCall(t2)) =>
            /\ trs[t1].ptr # trs[t2].ptr
            /\ bufs[t1].ptr # NULL => bufs[t1].ptr # bufs[t2].ptr
    /\ \A th \in Threads : InCall(th) => ctxs[trs[th].ptr].live
    /\ \A th \in Threads :
        (trs[th].state = "ready" /\ last[th].op = "transform") =>
            \E o \in Alone(th) :
                /\ o.res = last[th].res
                /\ o.calls = last[th].calls
                /\ o.rep.len = last[th].rep.len
                /\ o.buf.len = bufs[th].len
                /\ o.buf.is_owned = bufs[th].is_owned
                /\ (o.buf.ptr = NULL) <=> (bufs[th].ptr = NULL)
                /\ ~o.buf.is_owned => o.buf.ptr = bufs[th].ptr
                /\ o.res = Ok =>
                    ReadBytes(o.n.heap, o.sl, o.buf.ptr, o.buf.len)
                        = ReadBytes(heap, slices, bufs[th].ptr, bufs[th].len)

\* thread 2 has finished a failed transform and returned its own error
\* message while thread 1, inside its call, has yet to fetch a different one
C16_Witness ==
    /\ trs[1].state = "fetch"
    /\ ctxs[trs[1].ptr].err = "Not a JPEG file"
    /\ trs[2].state = "ready"
    /\ last[2].op = "transform"
    /\ last[2].res = Err("TurboJpegError", "Buffer too small")

\* C17: whenever the native transform was invoked, after transform returns the
\* output's address is the one the native layer reported and its length is
\* the reported one, on success and on failure alike, except that the length
\* is zero when the result is Err(Null); an owned output therefore holds null
\* or a live native region, never the address of a region the native layer
\* released when it reallocated.
C17_ReportedCopiedBack ==
    (last.op = "transform" /\ NativeCalled("tj3Transform"))
    => /\ bufs[last.b].ptr = last.rep.ptr
       /\ bufs[last.b].len = (IF last.res = Err("Null", "") THEN 0 ELSE last.rep.len)
       /\ last.pre.is_owned =>
            /\ bufs[last.b].ptr # NULL =>
                (bufs[last.b].ptr \in NativeAddrs /\ heap[bufs[last.b].ptr].live)
            /\ (last.pre.ptr # NULL /\ last.rep.ptr # last.pre.ptr) =>
                (~heap[last.pre.ptr].live /\ bufs[last.b].ptr # last.pre.ptr)

\* the native transform has failed after moving an owned output to a new region
C17_Witness ==
    /\ last.op = "transform"
    /\ last.res.kind = "TurboJpegError"
    /\ NativeCalled("tj3Transform")
    /\ last.pre.is_owned
    /\ last.pre.ptr # NULL
    /\ last.rep.ptr \notin {NULL, last.pre.ptr}
    /\ bufs[last.b].ptr = last.rep.ptr
    /\ heap[last.rep.ptr].live

\* C18: at every invocation of the native transform, the context's
\* no-reallocation parameter is 1 if the output buffer of that call is
\* borrowed and 0 if it is owned, whatever value earlier calls on the same
\* Transformer left in the context.
C18_NoReallocPerCall ==
    last.op = "transform" =>
        \A i \in CallsOf("tj3Transform") :
            last.calls[i].a = (IF last.pre.is_owned THEN 0 ELSE 1)

\* the native transform has run for an owned output on a context that an
\* earlier call for a borrowed output had left with the parameter at 1
C18_Witness ==
    /\ last.op = "transform"
    /\ last.pre.is_owned
    /\ last.param = 1
    /\ \E i \in CallsOf("tj3Transform") : last.calls[i].a = 0

\* C19: if setting the no-reallocation parameter fails (the native set
\* returns nonzero), transform returns Err(TurboJpegError) with the handle's
\* current error string, does not invoke the native transform, and leaves the
\* output buffer (its address and length) unchanged.
C19_SetFailure ==
    (last.op = "transform" /\ \E i \in CallsOf("tj3Set") : last.calls[i].r # 0)
    => /\ last.res = Err("TurboJpegError", ctxs[trs[last.t].ptr].err)
       /\ ~NativeCalled("tj3Transform")
       /\ bufs[last.b] = last.pre
       /\ last.rep = NoReport

\* setting the parameter has failed for a transform into a non-empty buffer
C19_Witness ==
    /\ last.op = "transform"
    /\ last.calls = <<Call("tj3Set", 1, -1), Call("tj3GetErrorStr", trs[last.t].ptr, 0)>>
    /\ last.res = Err("TurboJpegError", "Invalid parameter")
    /\ last.pre.len > 0
    /\ bufs[last.b] = last.pre

\* a native call that signals failure: a null context from the initializer,
\* a nonzero status from the set or the transform
Failing(c) ==
    \/ c.f = "tj3Init" /\ c.r = NULL
    \/ c.f \in {"tj3Set", "tj3Transform"} /\ c.r # 0
\* the context a native call of the last operation was made on
CallCtx(c) == IF c.f = "tj3Init" THEN c.r ELSE trs[last.t].ptr

\* C20: after a native call that signals failure (failed initialization, set
\* returning nonzero, transform returning nonzero), the next native call on
\* that context is the fetch of the error string: within the operation the
\* failing call is directly followed by it, nothing in between.
C20_ErrorFetchedNext ==
    \A i \in 1 .. Len(last.calls) :
        Failing(last.calls[i]) =>
            /\ i < Len(last.calls)
            /\ last.calls[i + 1] = Call("tj3GetErrorStr", CallCtx(last.calls[i]), 0)

\* the native transform has failed and its message has been fetched next
C20_Witness ==
    /\ last.op = "transform"
    /\ last.calls = <<Call("tj3Set", 1, 0), Call("tj3Transform", 1, -1),
                      Call("tj3GetErrorStr", trs[last.t].ptr, 0)>>
    /\ last.res = Err("TurboJpegError", "Buffer too small")

\* C21: when ownership is transferred out of a buffer (OutputBuf::owned
\* consuming an OwnedBuf, directly or in new_owned / allocate_owned, and
\* OutputBuf::into_owned consuming an OutputBuf), the source is empty, with a
\* null address and a zero length, when its destructor runs.
C21_SourceMarkedEmpty ==
    last.moved.kind # "none" =>
        /\ last.moved.ptr = NULL
        /\ last.moved.len = 0

HasBit(v, bit) == (v \div bit) % 2 = 1
BitIf(flag, bit) == IF flag THEN bit ELSE 0

\* C22: the descriptor passed to the native transform is a fixed function of
\* the Transform value: each of perfect, trim, gray, progressive, optimize,
\* copy_none sets its own option bit, the crop bit is set if and only if a
\* crop is present, and no other bit is set; the region holds the crop's x,
\* y, width and height unchanged (they fit the native integer), an absent
\* width or height, or an absent crop, giving 0; the operation is the
\* configured one; the region count is 1.  The default Transform gives the
\* operation none, options 0 and an all-zero region.
C22_Descriptor ==
    (last.op = "transform" /\ NativeCalled("tj3Transform")) =>
        LET cfg == last.cfg
            d == last.desc
        IN  /\ d.n = 1
            /\ d.op = cfg.op
            /\ HasBit(d.options, TJXOPT_PERFECT) <=> cfg.perfect
            /\ HasBit(d.options, TJXOPT_TRIM) <=> cfg.trim
            /\ HasBit(d.options, TJXOPT_GRAY) <=> cfg.gray
            /\ HasBit(d.options, TJXOPT_PROGRESSIVE) <=> cfg.progressive
            /\ HasBit(d.options, TJXOPT_OPTIMIZE) <=> cfg.optimize
            /\ HasBit(d.options, TJXOPT_COPYNONE) <=> cfg.copy_none
            /\ HasBit(d.options, TJXOPT_CROP) <=> cfg.crop.some
            /\ d.options = BitIf(cfg.perfect, TJXOPT_PERFECT) + BitIf(cfg.trim, TJXOPT_TRIM)
                            + BitIf(cfg.gray, TJXOPT_GRAY)
                            + BitIf(cfg.progressive, TJXOPT_PROGRESSIVE)
                            + BitIf(cfg.optimize, TJXOPT_OPTIMIZE)
                            + BitIf(cfg.copy_none, TJXOPT_COPYNONE)
                            + BitIf(cfg.crop.some, TJXOPT_CROP)
            /\ cfg.crop.some =>
                /\ d.r.x = cfg.crop.x
                /\ d.r.y = cfg.crop.y
                /\ d.r.w = (IF cfg.crop.width = None THEN 0 ELSE cfg.crop.width)
                /\ d.r.h = (IF cfg.crop.height = None THEN 0 ELSE cfg.crop.height)
            /\ ~cfg.crop.some => d.r = Region(0, 0, 0, 0)
            /\ cfg = DefaultTransform =>
                d = [n |-> 1, r |-> Region(0, 0, 0, 0), op |-> TJXOP_NONE, options |-> 0]

\* the native transform has been given the descriptor of a rotation with
\* every flag set and a crop without height
C22_Witness ==
    /\ last.op = "transform"
    /\ NativeCalled("tj3Transform")
    /\ last.cfg.op = TJXOP_ROT90
    /\ last.cfg.crop = Crop(INT_MAX, 0, 3, None)
    /\ last.cfg.perfect /\ last.cfg.trim /\ last.cfg.gray
    /\ last.cfg.progressive /\ last.cfg.optimize /\ last.cfg.copy_none
    /\ last.desc = [n |-> 1, r |-> Region(INT_MAX, 0, 3, 0), op |-> TJXOP_ROT90,
                    options |-> 367]

\* C23: when one borrowed OutputBuf is reused for several transform calls,
\* the capacity offered to the native transform on each call is the length
\* the buffer holds at that moment, which is what the previous call left, not
\* the length of the original slice; no operation makes a borrowed buffer's
\* length grow, so the offered capacity never increases from call to call
\* and never exceeds the length of the original slice.  (That a later call
\* can then fail for lack of space although the slice is large enough is the
\* state C23_Witness describes.)
C23_BorrowedCapacity ==
    [][/\ \A b \in BufIds :
            (/\ bufs[b].kind = "OutputBuf" /\ ~bufs[b].is_owned
             /\ bufs'[b].kind = "OutputBuf") =>
                /\ bufs'[b].slice = bufs[b].slice
                /\ bufs'[b].len <= bufs[b].len
                /\ bufs'[b].len <= SliceLen(bufs[b].slice)
       /\ (/\ last'.op = "transform" /\ ~last'.pre.is_owned
           /\ \E i \in 1 .. Len(last'.calls) : last'.calls[i].f = "tj3Transform") =>
                /\ last'.offered = bufs[last'.b].len
                /\ last'.offered <= SliceLen(bufs[last'.b].slice)]_vars

\* a transform into a borrowed buffer of MaxLen bytes, which an earlier call
\* had left with a shorter length, has failed for lack of space on an output
\* that fits the slice
C23_Witness ==
    /\ last.op = "transform"
    /\ ~last.pre.is_owned
    /\ last.res = Err("TurboJpegError", "Buffer too small")
    /\ last.offered = last.pre.len
    /\ 0 < last.pre.len
    /\ last.pre.len < last.input.need
    /\ last.input.need <= SliceLen(last.pre.slice)

====
